---- MODULE Spec2Model ----
(***************************************************************************)
(* The query pipeline and the view coordinator of the Jupiter DCA order    *)
(* viewer.  The repository holds several revisions of the component        *)
(* JupiterDCAViewer; the model names them after the file they live in:     *)
(*   "tsx"   src/src/components/JupiterDCAViewer.tsx  (text-box filters,   *)
(*           debounced fetch, header-click sort)                           *)
(*   "p002a" src/unnamed/part_002 lines 1-408   (tabs, debounce rebuilt on *)
(*           every render, fetch re-issued on every filter change)         *)
(*   "p001"  src/unnamed/part_001               (hasFetched guard,         *)
(*           memoized debounce with cancel, token-pair sort key)           *)
(*   "p002b" src/unnamed/part_002 lines 409-919 (as p001, paginated)       *)
(*                                                                         *)
(* JavaScript strings are sequences of UTF-16 code units (naturals), so    *)
(* that toLowerCase, includes, < and localeCompare are computed and not    *)
(* assumed.  The value undefined is the one-element sequence <<-1>>, which *)
(* is equal to no string.                                                  *)
(***************************************************************************)
EXTENDS Integers, Sequences, FiniteSets, TLC

VARIABLES
    called,      \* harness: the pure function applied last ("none" before)
    args,        \* harness: the arguments it was applied to
    ret,         \* harness: what it returned
    variant,     \* which revision of the component is mounted
    phase,       \* "rendered" (first render done), "mounted", "unmounted"
    orders,      \* useState orders
    ordersFrom,  \* issue number of the fetch whose result orders holds (0: none)
    filters,     \* useState filters (the committed Filter Criteria)
    sortConfig,  \* useState sortConfig
    activeTab,   \* useState activeTab
    hasFetched,  \* useRef hasFetched
    fetchCount,  \* number of calls of fetchDCAOrders so far
    inFlight,    \* fetches issued and not completed: <<[id, left]>>, oldest first
    pendingEdit, \* pending call of the current debounced handleFilterChange
    orphanEdits, \* pending calls of debounced functions of earlier renders
    pendingFetch,\* pending call of debouncedFetchOrders (tsx)
    intervals,   \* the setInterval timers not cleared: for each the issue number of
                 \* the order set its callback holds (-1: it reads no orders)
    aggLoads,    \* calls of fetchAggregateVolume not yet resolved (p002a)
    aggregateFrom,\* issue number of the order set the chart series shows (-1: empty)
    sinceEdit,   \* ms since the last filter edit, capped at DebounceWait
    commitsSinceEdit, \* criteria updates since the last filter edit
    earlyCommit, \* a criteria update came less than DebounceWait after an edit
    lateFire,    \* a debounced call ran after teardown
    raced,       \* ghost: a fetch resolved while a fetch issued after it was in flight
    rows         \* the value of the filteredOrders memo: the dataSource of the table

hvars == <<called, args, ret>>
cvars == <<variant, phase, orders, ordersFrom, filters, sortConfig, activeTab,
           hasFetched, fetchCount, inFlight, pendingEdit, orphanEdits, pendingFetch,
           intervals, aggLoads, aggregateFrom, sinceEdit, commitsSinceEdit,
           earlyCommit, lateFire, raced, rows>>
vars == <<hvars, cvars>>

(***************************************************************************)
(* Strings                                                                 *)
(***************************************************************************)
Undefined == <<-1>>
EmptyStr == <<>>

\* String.prototype.toLowerCase on ASCII: A..Z (65..90) to a..z (97..122)
ToLowerCase(s) == [i \in 1..Len(s) |-> IF s[i] \in 65..90 THEN s[i] + 32 ELSE s[i]]

\* String.prototype.includes: t occurs in s as a contiguous substring
Includes(s, t) ==
    \E i \in 0..(Len(s) - Len(t)) : SubSeq(s, i + 1, i + Len(t)) = t

\* s + "-" + t  (the template literal `${s}-${t}`)
Hyphenate(s, t) == s \o <<45>> \o t

Min(a, b) == IF a < b THEN a ELSE b

\* the JavaScript < on two strings: lexicographic by code unit
StrLess(s, t) ==
    \E k \in 1..(Min(Len(s), Len(t)) + 1) :
        /\ \A j \in 1..(k - 1) : s[j] = t[j]
        /\ \/ (k > Len(s) /\ k <= Len(t))
           \/ (k <= Len(s) /\ k <= Len(t) /\ s[k] < t[k])

\* String.prototype.localeCompare under the root collation, for letters,
\* digits and "-": first level the letters without case ("-" before digits
\* before letters), second level lower case before upper case.
Primary(c) ==
    IF c \in 97..122 THEN 100 + (c - 97)
    ELSE IF c \in 65..90 THEN 100 + (c - 65)
    ELSE IF c \in 48..57 THEN 50 + (c - 48)
    ELSE c
Tertiary(c) == IF c \in 65..90 THEN 1 ELSE 0
PrimaryKey(s) == [i \in 1..Len(s) |-> Primary(s[i])]
TertiaryKey(s) == [i \in 1..Len(s) |-> Tertiary(s[i])]
LocaleCompare(s, t) ==
    IF StrLess(PrimaryKey(s), PrimaryKey(t)) THEN -1
    ELSE IF StrLess(PrimaryKey(t), PrimaryKey(s)) THEN 1
    ELSE IF StrLess(TertiaryKey(s), TertiaryKey(t)) THEN -1
    ELSE IF StrLess(TertiaryKey(t), TertiaryKey(s)) THEN 1
    ELSE 0

(***************************************************************************)
(* Instants.  A Date is its millisecond value; Date.prototype.toISOString  *)
(* is a fixed-width, most-significant-first rendering of it and new        *)
(* Date(string) reads it back.                                             *)
(***************************************************************************)
IsoWidth == 9
MinuteMs == 60 * 1000
HourMs == 60 * 60 * 1000
DayMs == 24 * 60 * 60 * 1000

RECURSIVE Pow10(_)
Pow10(n) == IF n = 0 THEN 1 ELSE 10 * Pow10(n - 1)

ToISOString(t) == [i \in 1..IsoWidth |-> 48 + ((t \div Pow10(IsoWidth - i)) % 10)]

RECURSIVE DateParse(_)
DateParse(s) ==
    IF s = <<>> THEN 0
    ELSE 10 * DateParse(SubSeq(s, 1, Len(s) - 1)) + (s[Len(s)] - 48)

(***************************************************************************)
(* Orders                                                                  *)
(***************************************************************************)
SOL == <<83, 79, 76>>
USDC == <<85, 83, 68, 67>>
ETH == <<69, 84, 72>>
BTC == <<66, 84, 67>>
USDT == <<85, 83, 68, 84>>
RAY == <<82, 65, 89>>
Daily == <<100, 97, 105, 108, 121>>
Weekly == <<119, 101, 101, 107, 108, 121>>
Monthly == <<109, 111, 110, 116, 104, 108, 121>>

\* `user-${n}` and `order-${index}` for one-digit n, index
UserName(n) == <<117, 115, 101, 114, 45, 48 + n>>
OrderId(index) == <<111, 114, 100, 101, 114, 45, 48 + index>>

\* one element of the array fetchDCAOrders returns
DCAOrder(index, n, inMint, outMint, amt, freq, orderDate, executeDate) ==
    [id |-> OrderId(index), user |-> UserName(n), inputMint |-> inMint,
     outputMint |-> outMint, amount |-> amt, frequency |-> freq,
     createdAt |-> ToISOString(orderDate), executeAt |-> ToISOString(executeDate)]

\* sequences without repetition over S, of length at most n (ids are unique
\* within a fetched set)
DistinctSeqs(S, n) ==
    UNION {{s \in [1..k -> S] : \A i, j \in 1..k : i # j => s[i] # s[j]} : k \in 0..n}

Range(s) == {s[i] : i \in 1..Len(s)}

(***************************************************************************)
(* Time-window partitioner: the first filter of filteredOrders             *)
(***************************************************************************)
InWindowLowerInclusive(order, now, tab) ==
    LET executeTime == DateParse(order.executeAt) IN
    IF tab = "Next Hour" THEN executeTime >= now /\ executeTime <= now + HourMs
    ELSE IF tab = "Next Day" THEN executeTime >= now /\ executeTime <= now + DayMs
    ELSE TRUE

\* the day tab starting where the hour tab ends
InWindowDisjoint(order, now, tab) ==
    LET executeTime == DateParse(order.executeAt) IN
    IF tab = "Next Hour" THEN executeTime > now /\ executeTime <= now + HourMs
    ELSE IF tab = "Next Day" THEN executeTime > now + HourMs /\ executeTime <= now + DayMs
    ELSE TRUE

InWindow(order, now, tab) ==
    LET executeTime == DateParse(order.executeAt) IN
    IF tab = "Next Hour" THEN executeTime > now /\ executeTime <= now + HourMs
    ELSE IF tab = "Next Day" THEN executeTime > now /\ executeTime <= now + DayMs
    ELSE TRUE

relevantOrders(os, now, tab) ==
    LET Keep(order) == InWindow(order, now, tab) IN SelectSeq(os, Keep)

(***************************************************************************)
(* Filter engine: the second filter of filteredOrders                      *)
(***************************************************************************)
\* part_000, part_001, part_002: the mint criteria are exact-match selectors
MatchesSelect(order, f) ==
    /\ Includes(ToLowerCase(order.user), ToLowerCase(f.user))
    /\ (f.inputMint = EmptyStr \/ order.inputMint = f.inputMint)
    /\ (f.outputMint = EmptyStr \/ order.outputMint = f.outputMint)
    /\ \/ Includes(ToLowerCase(order.user), ToLowerCase(f.search))
       \/ Includes(ToLowerCase(order.inputMint), ToLowerCase(f.search))
       \/ Includes(ToLowerCase(order.outputMint), ToLowerCase(f.search))

\* JupiterDCAViewer.tsx: the mint criteria are text boxes, matched as substrings
MatchesText(order, f) ==
    /\ Includes(ToLowerCase(order.user), ToLowerCase(f.user))
    /\ Includes(ToLowerCase(order.inputMint), ToLowerCase(f.inputMint))
    /\ Includes(ToLowerCase(order.outputMint), ToLowerCase(f.outputMint))
    /\ \/ Includes(ToLowerCase(order.user), ToLowerCase(f.search))
       \/ Includes(ToLowerCase(order.inputMint), ToLowerCase(f.search))
       \/ Includes(ToLowerCase(order.outputMint), ToLowerCase(f.search))

Matches(order, f, v) ==
    IF v = "tsx" THEN MatchesText(order, f) ELSE MatchesSelect(order, f)

FilterOrders(os, f, v) ==
    LET Keep(order) == Matches(order, f, v) IN SelectSeq(os, Keep)

(***************************************************************************)
(* Sort engine: the comparator handed to Array.prototype.sort, and the     *)
(* sort itself as the host engine runs it on a short array (one run        *)
(* detected and made ascending, the rest placed by binary insertion).      *)
(***************************************************************************)
OrderFields == {"id", "user", "inputMint", "outputMint", "amount", "frequency",
                "createdAt", "executeAt"}

\* a[key] < b[key]: numbers by value, strings by code unit; a key that is no
\* field reads undefined on both sides, and undefined < undefined is false
FieldLess(a, b, key) ==
    IF key \notin OrderFields THEN FALSE
    ELSE IF key = "amount" THEN a.amount < b.amount
    ELSE StrLess(a[key], b[key])

tokenPair(order) == Hyphenate(order.outputMint, order.inputMint)

\* JupiterDCAViewer.tsx 73-77 (and part_000): direction is 'asc' or 'desc'
CompareTsx(a, b, cfg) ==
    IF FieldLess(a, b, cfg.key) THEN (IF cfg.direction = "asc" THEN -1 ELSE 1)
    ELSE IF FieldLess(b, a, cfg.key) THEN (IF cfg.direction = "asc" THEN 1 ELSE -1)
    ELSE 0

\* the comparator of part_002 186-191 without its test of the direction
CompareNullableAscendOnly(a, b, cfg) ==
    IF cfg.direction = "null" THEN 0
    ELSE IF FieldLess(a, b, cfg.key) THEN -1
    ELSE IF FieldLess(b, a, cfg.key) THEN 1
    ELSE 0

\* part_002 186-191: direction is 'ascend', 'descend' or null
CompareNullable(a, b, cfg) ==
    IF cfg.direction = "null" THEN 0
    ELSE IF FieldLess(a, b, cfg.key) THEN (IF cfg.direction = "ascend" THEN -1 ELSE 1)
    ELSE IF FieldLess(b, a, cfg.key) THEN (IF cfg.direction = "ascend" THEN 1 ELSE -1)
    ELSE 0

\* the token-pair branch with its two comparisons exchanged
CompareTokenPairSwapped(a, b, cfg) ==
    IF cfg.key = "tokenPair"
    THEN IF cfg.direction = "ascend"
         THEN LocaleCompare(tokenPair(b), tokenPair(a))
         ELSE LocaleCompare(tokenPair(a), tokenPair(b))
    ELSE IF cfg.direction = "ascend" THEN (IF FieldLess(a, b, cfg.key) THEN -1 ELSE 1)
    ELSE IF cfg.direction = "descend" THEN (IF FieldLess(b, a, cfg.key) THEN -1 ELSE 1)
    ELSE 0

\* part_001 210-225 and part_002 624-639: the derived token-pair key
CompareTokenPair(a, b, cfg) ==
    IF cfg.key = "tokenPair"
    THEN IF cfg.direction = "ascend"
         THEN LocaleCompare(tokenPair(a), tokenPair(b))
         ELSE LocaleCompare(tokenPair(b), tokenPair(a))
    ELSE IF cfg.direction = "ascend" THEN (IF FieldLess(a, b, cfg.key) THEN -1 ELSE 1)
    ELSE IF cfg.direction = "descend" THEN (IF FieldLess(b, a, cfg.key) THEN -1 ELSE 1)
    ELSE 0

Compare(a, b, cfg, v) ==
    IF v = "tsx" THEN CompareTsx(a, b, cfg)
    ELSE IF v = "p002a" THEN CompareNullable(a, b, cfg)
    ELSE CompareTokenPair(a, b, cfg)

Reverse(s) == [i \in 1..Len(s) |-> s[Len(s) + 1 - i]]

\* length of the run that starts the array: s[idx] is the next element looked at
RECURSIVE RunLength(_, _, _, _, _, _)
RunLength(s, idx, run, isDescending, cfg, v) ==
    IF idx > Len(s) THEN run
    ELSE LET order == Compare(s[idx], s[idx - 1], cfg, v) IN
         IF (isDescending /\ order >= 0) \/ (~isDescending /\ order < 0) THEN run
         ELSE RunLength(s, idx + 1, run + 1, isDescending, cfg, v)

\* where the pivot goes in the sorted prefix: left and right count from 0
RECURSIVE InsertionPoint(_, _, _, _, _, _)
InsertionPoint(s, pivot, left, right, cfg, v) ==
    IF left >= right THEN left
    ELSE LET mid == left + ((right - left) \div 2) IN
         IF Compare(pivot, s[mid + 1], cfg, v) < 0
         THEN InsertionPoint(s, pivot, left, mid, cfg, v)
         ELSE InsertionPoint(s, pivot, mid + 1, right, cfg, v)

\* s[1..start-1] is sorted; place s[start], s[start+1], ...
RECURSIVE BinaryInsertionSort(_, _, _, _)
BinaryInsertionSort(s, start, cfg, v) ==
    IF start > Len(s) THEN s
    ELSE LET pivot == s[start]
             at == InsertionPoint(s, pivot, 0, start - 1, cfg, v)
             placed == SubSeq(s, 1, at) \o <<pivot>> \o SubSeq(s, at + 1, start - 1)
                       \o SubSeq(s, start + 1, Len(s))
         IN BinaryInsertionSort(placed, start + 1, cfg, v)

ArraySort(s, cfg, v) ==
    IF Len(s) < 2 THEN s
    ELSE LET isDescending == Compare(s[2], s[1], cfg, v) < 0
             run == RunLength(s, 3, 2, isDescending, cfg, v)
             made == IF isDescending
                     THEN Reverse(SubSeq(s, 1, run)) \o SubSeq(s, run + 1, Len(s))
                     ELSE s
         IN BinaryInsertionSort(made, run + 1, cfg, v)

\* Array.prototype.sort leaves the order to the engine when the comparator is
\* not consistent.  SpiderMonkey sorts a short array by insertion: the item
\* moves left past every element that compares greater than it.
RECURSIVE SinkPoint(_, _, _, _, _)
SinkPoint(s, item, j, cfg, v) ==
    IF j < 1 THEN 0
    ELSE IF Compare(s[j], item, cfg, v) <= 0 THEN j
    ELSE SinkPoint(s, item, j - 1, cfg, v)

RECURSIVE InsertionSort(_, _, _, _)
InsertionSort(s, i, cfg, v) ==
    IF i > Len(s) THEN s
    ELSE LET item == s[i]
             at == SinkPoint(s, item, i - 1, cfg, v)
             placed == SubSeq(s, 1, at) \o <<item>> \o SubSeq(s, at + 1, i - 1)
                       \o SubSeq(s, i + 1, Len(s))
         IN InsertionSort(placed, i + 1, cfg, v)

Engines == {"v8", "spidermonkey"}
EngineSort(s, cfg, v, engine) ==
    IF engine = "v8" THEN ArraySort(s, cfg, v) ELSE InsertionSort(s, 2, cfg, v)

\* the first row only, as if the page were cut inside the pipeline
filteredOrdersPaged(os, now, tab, f, cfg, v) ==
    LET sorted == ArraySort(FilterOrders(IF v = "tsx" THEN os
                                         ELSE relevantOrders(os, now, tab), f, v), cfg, v)
    IN  IF sorted = <<>> THEN <<>> ELSE <<sorted[1]>>
\* the rows handed to the table: partition, filter, sort
filteredOrders(os, now, tab, f, cfg, v) ==
    ArraySort(FilterOrders(IF v = "tsx" THEN os ELSE relevantOrders(os, now, tab), f, v),
              cfg, v)

(***************************************************************************)
(* Aggregation: fetchAggregateUSDCValue.  new Date(ms) and getTime() count  *)
(* ms since the epoch; getHours and setHours read and write the local wall *)
(* time, which is the instant plus the offset of the time zone in force.   *)
(* A zone is "fixed" (one offset), "forward" (the offset grows by an hour  *)
(* at ZoneTransition: an hour of wall time is skipped) or "back" (the      *)
(* offset shrinks by an hour: an hour of wall time repeats).               *)
(***************************************************************************)
Zones == {"fixed", "forward", "back"}
ZoneTransition == 30 * HourMs

Offset(zone, t) ==
    IF zone = "forward" THEN (IF t >= ZoneTransition THEN HourMs ELSE 0)
    ELSE IF zone = "back" THEN (IF t >= ZoneTransition THEN 0 ELSE HourMs)
    ELSE 0

LocalTime(zone, t) == t + Offset(zone, t)

\* the instant of a wall time: a skipped or repeated wall time is read with
\* the offset in force before the transition
UTC(zone, wall) ==
    LET before == Offset(zone, ZoneTransition - 1)
        after == Offset(zone, ZoneTransition)
    IN IF wall - before < ZoneTransition THEN wall - before
       ELSE IF wall - after >= ZoneTransition THEN wall - after
       ELSE wall - before

\* date.setHours(date.getHours() + i): the hour field of the wall time is
\* moved by i, minutes and below kept, overflow carried into the day
setHoursPlus(zone, t, i) == UTC(zone, LocalTime(zone, t) + i * HourMs)

\* toLocaleTimeString([], {hour: '2-digit', minute: '2-digit'}): the hour and
\* the minute of the wall time
toLocaleTimeString(zone, t) ==
    LET wall == LocalTime(zone, t) % DayMs
    IN <<wall \div HourMs, (wall % HourMs) \div MinuteMs>>

BucketCount == 24
BucketIndicesShort == 1..(BucketCount - 1)
BucketIndices == 1..BucketCount

hourStart(zone, past24Hours, index) == setHoursPlus(zone, past24Hours, index)
hourEnd(zone, start) == setHoursPlus(zone, start, 1)

InBucketOpenStart(order, start, end) ==
    LET executeAt == DateParse(order.executeAt)
    IN executeAt > start /\ executeAt < end /\ order.inputMint = USDC
InBucketClosedEnd(order, start, end) ==
    LET executeAt == DateParse(order.executeAt)
    IN executeAt >= start /\ executeAt <= end /\ order.inputMint = USDC
\* executeAt >= hourStart && executeAt < hourEnd && order.inputMint === 'USDC'
InBucket(order, start, end) ==
    LET executeAt == DateParse(order.executeAt)
    IN executeAt >= start /\ executeAt < end /\ order.inputMint = USDC

\* .reduce((sum, order) => sum + order.amount, 0)
RECURSIVE SumAmount(_)
SumAmount(os) ==
    IF os = <<>> THEN 0
    ELSE SumAmount(SubSeq(os, 1, Len(os) - 1)) + os[Len(os)].amount

fetchAggregateUSDCValue(os, now, zone) ==
    LET past24Hours == now - DayMs
        Counted(start, end) ==
            LET Test(order) == InBucket(order, start, end) IN SelectSeq(os, Test)
    IN [labels |-> [i \in BucketIndices |->
                       toLocaleTimeString(zone, setHoursPlus(zone, past24Hours, i - 1))],
        data |-> [i \in BucketIndices |->
                     LET start == hourStart(zone, past24Hours, i - 1)
                     IN SumAmount(Counted(start, hourEnd(zone, start)))]]

(***************************************************************************)
(* The pipeline on arrays as objects.  A store is the sequence of the      *)
(* arrays allocated so far and a reference is an index in it; reference 1  *)
(* is the array held in the orders state.  filter allocates, sort writes   *)
(* the array it is called on and returns it, reduce only reads.            *)
(***************************************************************************)
RECURSIVE Select(_, _, _)
Select(a, keep, n) ==
    IF n = 0 THEN <<>>
    ELSE IF keep[n] THEN Append(Select(a, keep, n - 1), a[n]) ELSE Select(a, keep, n - 1)

\* a filter that hands back its receiver when every element passes
ArrayFilterReusing(store, ref, keep) ==
    IF \A i \in 1..Len(store[ref]) : keep[i]
    THEN [store |-> store, ref |-> ref]
    ELSE [store |-> Append(store, Select(store[ref], keep, Len(store[ref]))), ref |-> Len(store) + 1]
\* Array.prototype.filter: a new array with the elements that pass
ArrayFilter(store, ref, keep) ==
    [store |-> Append(store, Select(store[ref], keep, Len(store[ref]))), ref |-> Len(store) + 1]

\* Array.prototype.sort: sorts the array in place and returns it
ArraySortInPlace(store, ref, cfg, v) ==
    [store |-> [store EXCEPT ![ref] = ArraySort(@, cfg, v)], ref |-> ref]

\* the body of the filteredOrders memo: orders.filter(window).filter(criteria)
\* .sort(comparator); tsx has no window filter.  Returns the rows and what
\* the orders array holds afterwards.
WindowMask(a, now, tab) == [i \in 1..Len(a) |-> InWindow(a[i], now, tab)]
CriteriaMask(a, f, v) == [i \in 1..Len(a) |-> Matches(a[i], f, v)]
filteredOrdersRun(os, now, tab, f, cfg, v) ==
    LET whole == [store |-> <<os>>, ref |-> 1]
        relevant == IF v = "tsx" THEN whole
                    ELSE ArrayFilter(whole.store, whole.ref, WindowMask(os, now, tab))
        passing == ArrayFilter(relevant.store, relevant.ref,
                               CriteriaMask(relevant.store[relevant.ref], f, v))
        sorted == ArraySortInPlace(passing.store, passing.ref, cfg, v)
    IN  [rows |-> sorted.store[sorted.ref], orders |-> sorted.store[1]]

\* the body of fetchAggregateUSDCValue: per bucket orders.filter(...).reduce(...)
RECURSIVE fetchAggregateUSDCValueRun(_, _, _, _, _)
fetchAggregateUSDCValueRun(store, now, zone, index, data) ==
    IF index > BucketCount THEN [data |-> data, orders |-> store[1]]
    ELSE LET start == hourStart(zone, now - DayMs, index - 1)
             end == hourEnd(zone, start)
             counted == ArrayFilter(store, 1, [i \in 1..Len(store[1]) |->
                                                  InBucket(store[1][i], start, end)])
         IN  fetchAggregateUSDCValueRun(counted.store, now, zone, index + 1,
                                        Append(data, SumAmount(counted.store[counted.ref])))

(***************************************************************************)
(* The selector options: the effect on [orders] that fills inputMints and  *)
(* outputMints                                                             *)
(***************************************************************************)
\* the mapped values as they are, repetitions kept
ArrayFromMap(values) == values
\* Array.from(new Set(values)): the first occurrence of each value, in order
RECURSIVE ArrayFromSet(_)
ArrayFromSet(values) ==
    IF values = <<>> THEN <<>>
    ELSE LET front == ArrayFromSet(SubSeq(values, 1, Len(values) - 1))
             last == values[Len(values)]
         IN  IF \E i \in 1..Len(front) : front[i] = last THEN front
             ELSE Append(front, last)

\* Array.prototype.sort() without comparator on strings: by code unit
RECURSIVE SortStrings(_)
SortStrings(a) ==
    IF a = <<>> THEN <<>>
    ELSE LET front == SortStrings(SubSeq(a, 1, Len(a) - 1))
             last == a[Len(a)]
             at == Cardinality({i \in 1..Len(front) : ~StrLess(last, front[i])})
         IN  SubSeq(front, 1, at) \o <<last>> \o SubSeq(front, at + 1, Len(front))

\* part_001 and the paginated revision sort the list, part_000 and the first
\* revision of part_002 do not
uniqueMints(os, field, v) ==
    LET unique == ArrayFromSet([i \in 1..Len(os) |-> os[i][field]])
    IN  IF v \in {"p001", "p002b"} THEN SortStrings(unique) ELSE unique

(***************************************************************************)
(* The component after its first render (the useState and useRef initial   *)
(* values), before any effect has run                                      *)
(***************************************************************************)
DebounceWait == 300
FetchDelay == 500

DefaultFilters ==
    [search |-> EmptyStr, inputMint |-> EmptyStr, outputMint |-> EmptyStr,
     user |-> EmptyStr]

DefaultSort(v) ==
    [key |-> "amount", direction |-> IF v = "tsx" THEN "desc" ELSE "descend"]

CoordInit(v) ==
    /\ variant = v
    /\ phase = "rendered"
    /\ orders = <<>>
    /\ ordersFrom = 0
    /\ filters = DefaultFilters
    /\ sortConfig = DefaultSort(v)
    /\ activeTab = "Next Hour"
    /\ hasFetched = FALSE
    /\ fetchCount = 0
    /\ inFlight = <<>>
    /\ pendingEdit = <<>>
    /\ orphanEdits = <<>>
    /\ pendingFetch = <<>>
    /\ intervals = <<>>
    /\ aggLoads = 0
    /\ aggregateFrom = -1
    /\ sinceEdit = DebounceWait
    /\ commitsSinceEdit = 0
    /\ earlyCommit = FALSE
    /\ lateFire = FALSE
    /\ raced = FALSE
    /\ rows = <<>>

(***************************************************************************)
(* The pure functions on their own: Init draws the arguments, the one      *)
(* action applies the function                                             *)
(***************************************************************************)
MaxOrders == 3
Tabs == {"Next Hour", "Next Day", "All"}

\* orders that differ in executeAt only: before now, at now, inside the hour,
\* at the hour's edge, inside the day, at the day's edge, beyond
ExecInstants ==
    {0, 30 * MinuteMs, 60 * MinuteMs, 90 * MinuteMs, DayMs, DayMs + 30 * MinuteMs,
     DayMs + HourMs}
PartitionCatalogue ==
    {DCAOrder(t \div (30 * MinuteMs) % 10, 1, SOL, BTC, 100, Daily, 0, t) : t \in ExecInstants}
Nows == {0, 30 * MinuteMs}

PartitionInit ==
    /\ CoordInit("p001")
    /\ called = "none"
    /\ ret = <<>>
    /\ args \in [orders : DistinctSeqs(PartitionCatalogue, MaxOrders), now : Nows,
                 tab : Tabs]

ApplyPartition ==
    /\ called = "none"
    /\ called' = "relevantOrders"
    /\ ret' = relevantOrders(args.orders, args.now, args.tab)
    /\ UNCHANGED <<args, cvars>>

SpecPartition == PartitionInit /\ [][ApplyPartition]_vars

\* criteria: text typed into a box, a selector value, the value of a cleared
\* selector (undefined)
Str_sol == <<115, 111, 108>>
Str_usd == <<117, 115, 100>>
Str_so == <<115, 111>>
Str_bt == <<98, 116>>
Str_USER1 == <<85, 83, 69, 82, 45, 49>>
Blank1 == <<32>>

FilterCatalogue ==
    {DCAOrder(1, 1, SOL, BTC, 100, Daily, 0, 30 * MinuteMs),
     DCAOrder(2, 2, USDC, RAY, 50, Weekly, 0, 2 * HourMs),
     DCAOrder(3, 1, USDC, USDT, 100, Daily, 0, HourMs),
     DCAOrder(4, 2, SOL, RAY, 7, Monthly, 0, DayMs)}

SearchTexts == {EmptyStr, Str_sol, Str_usd, Blank1}
UserTexts == {EmptyStr, Str_USER1, UserName(2)}
SelectCriteria ==
    [search : SearchTexts, inputMint : {EmptyStr, SOL, USDC, Undefined},
     outputMint : {EmptyStr, BTC, RAY, Undefined}, user : UserTexts]
TextCriteria ==
    [search : SearchTexts, inputMint : {EmptyStr, SOL, Str_so, Blank1},
     outputMint : {EmptyStr, BTC, Str_bt}, user : UserTexts]

FilterInit ==
    /\ called = "none"
    /\ ret = <<>>
    /\ \/ args \in [orders : DistinctSeqs(FilterCatalogue, MaxOrders),
                    filters : SelectCriteria, v : {"p001"}]
       \/ args \in [orders : DistinctSeqs(FilterCatalogue, MaxOrders),
                    filters : TextCriteria, v : {"tsx"}]
    /\ CoordInit(args.v)

ApplyFilter ==
    /\ called = "none"
    /\ called' = "FilterOrders"
    /\ ret' = FilterOrders(args.orders, args.filters, args.v)
    /\ UNCHANGED <<args, cvars>>

SpecFilter == FilterInit /\ [][ApplyFilter]_vars

\* orders with ties on user, amount, outputMint, frequency and createdAt;
\* amounts whose decimal text sorts differently from their value
SortCatalogue ==
    {DCAOrder(1, 1, SOL, BTC, 100, Daily, 0, 30 * MinuteMs),
     DCAOrder(2, 2, USDC, RAY, 50, Weekly, HourMs, 2 * HourMs),
     DCAOrder(3, 1, USDC, BTC, 100, Daily, 0, 11 * HourMs),
     DCAOrder(4, 3, ETH, USDT, 7, Monthly, 10 * HourMs, DayMs)}

SortConfigs(v) ==
    IF v = "tsx" THEN [key : OrderFields \ {"executeAt"}, direction : {"asc", "desc"}]
    ELSE IF v = "p002a" THEN [key : OrderFields, direction : {"ascend", "descend", "null"}]
    ELSE [key : OrderFields \cup {"tokenPair", "undefined"},
          direction : {"ascend", "descend", "null"}]

SortInit ==
    /\ called = "none"
    /\ ret = <<>>
    /\ \E v \in {"tsx", "p002a", "p001", "p002b"} :
          args \in [orders : DistinctSeqs(SortCatalogue, MaxOrders),
                    cfg : SortConfigs(v), v : {v}, engine : Engines]
    /\ CoordInit(args.v)

ApplySort ==
    /\ called = "none"
    /\ called' = "ArraySort"
    /\ ret' = EngineSort(args.orders, args.cfg, args.v, args.engine)
    /\ UNCHANGED <<args, cvars>>

SpecSort == SortInit /\ [][ApplySort]_vars

\* orders at the edges of the trailing day and of its hours, around the
\* transition of the zone, and the pair SOL 100 at 46h30, USDC 50 at 48h
AggregateCatalogue ==
    {DCAOrder(1, 1, SOL, BTC, 100, Daily, 0, 46 * HourMs + 30 * MinuteMs),
     DCAOrder(2, 2, USDC, RAY, 50, Weekly, 0, 48 * HourMs),
     DCAOrder(3, 1, USDC, BTC, 100, Daily, 0, DayMs),
     DCAOrder(4, 3, USDC, USDT, 7, Monthly, 0, 25 * HourMs),
     DCAOrder(5, 3, USDC, BTC, 30, Daily, 0, 30 * HourMs + 30 * MinuteMs),
     DCAOrder(6, 2, USDC, RAY, 20, Daily, 0, 47 * HourMs + 30 * MinuteMs),
     DCAOrder(7, 1, USDC, USDT, 9, Weekly, 0, DayMs - 1)}
AggregateNows == {46 * HourMs, 48 * HourMs, 48 * HourMs + 30 * MinuteMs}

AggregateInit ==
    /\ CoordInit("p001")
    /\ called = "none"
    /\ ret = <<>>
    /\ args \in [orders : DistinctSeqs(AggregateCatalogue, MaxOrders),
                 now : AggregateNows, zone : Zones]

ApplyAggregate ==
    /\ called = "none"
    /\ called' = "fetchAggregateUSDCValue"
    /\ ret' = fetchAggregateUSDCValue(args.orders, args.now, args.zone)
    /\ UNCHANGED <<args, cvars>>

SpecAggregate == AggregateInit /\ [][ApplyAggregate]_vars

\* the pipeline run again and again on one stored order set
PipelineCatalogue ==
    {DCAOrder(1, 1, SOL, BTC, 100, Daily, 0, 30 * MinuteMs),
     DCAOrder(2, 2, USDC, RAY, 50, Weekly, HourMs, 2 * HourMs),
     DCAOrder(3, 1, USDC, BTC, 100, Daily, 0, 11 * HourMs)}
PipelineKeys == {"amount", "tokenPair"}
PipelineConfigs(v) == {c \in SortConfigs(v) : c.key \in PipelineKeys \cap (OrderFields \cup
                          (IF v \in {"p001", "p002b"} THEN {"tokenPair"} ELSE {}))}
PipelineFilters == {DefaultFilters, [DefaultFilters EXCEPT !.inputMint = USDC]}

PipelineInit ==
    /\ called = "none"
    /\ ret = <<>>
    /\ \E os \in DistinctSeqs(PipelineCatalogue, MaxOrders),
          v \in {"tsx", "p002a", "p001", "p002b"} :
          args = [fetched |-> os, orders |-> os, v |-> v, tab |-> "Next Hour",
                  filters |-> DefaultFilters, cfg |-> DefaultSort(v)]
    /\ CoordInit(args.v)

RunFilteredOrders ==
    \E tab \in Tabs, f \in PipelineFilters, cfg \in PipelineConfigs(args.v) :
        LET run == filteredOrdersRun(args.orders, 0, tab, f, cfg, args.v) IN
        /\ called' = "filteredOrders"
        /\ ret' = run.rows
        /\ args' = [args EXCEPT !.orders = run.orders, !.tab = tab, !.filters = f,
                                !.cfg = cfg]
        /\ UNCHANGED cvars

RunAggregate ==
    /\ args.v \in {"p001", "p002b"}
    /\ LET run == fetchAggregateUSDCValueRun(<<args.orders>>, 12 * HourMs, "fixed", 1, <<>>) IN
        /\ called' = "fetchAggregateUSDCValue"
        /\ ret' = run.data
        /\ args' = [args EXCEPT !.orders = run.orders]
        /\ UNCHANGED cvars

SpecPipeline == PipelineInit /\ [][RunFilteredOrders \/ RunAggregate]_vars

\* The header cells of the list: onClick={() => handleSort(key)}, clicked one
\* after the other; the first configuration is that of useState.
\* handleSortToggling is a toggle that does not look at the key;
\* handleSort(key) is setSortConfig(prevConfig => ...).
handleSortToggling(prevConfig, key) ==
    [key |-> key, direction |-> IF prevConfig.direction = "asc" THEN "desc" ELSE "asc"]
handleSort(prevConfig, key) ==
    [key |-> key,
     direction |-> IF prevConfig.key = key /\ prevConfig.direction = "asc"
                   THEN "desc" ELSE "asc"]
HeaderKeys == {"user", "inputMint", "outputMint", "amount", "frequency", "createdAt"}
FirstSortConfigs == {[key |-> "amount", direction |-> "desc"],
                     [key |-> "createdAt", direction |-> "desc"]}

HeaderInit ==
    /\ called = "none"
    /\ args = <<>>
    /\ ret \in FirstSortConfigs
    /\ CoordInit("tsx")

ClickHeader ==
    /\ \E key \in HeaderKeys :
          /\ args' = [first |-> IF called = "none" THEN ret ELSE args.first,
                      prevConfig |-> ret, key |-> key]
          /\ ret' = handleSort(ret, key)
    /\ called' = "handleSort"
    /\ UNCHANGED cvars

SpecHeader == HeaderInit /\ [][ClickHeader]_vars

\* the option lists over the life of the view: a fetch result is stored and
\* the effect on [orders] runs, or something else is rendered and it does not
MintsInit ==
    /\ called = "none"
    /\ \E v \in {"p002a", "p001", "p002b"} : args = [orders |-> <<>>, v |-> v]
    /\ ret = [inputMints |-> <<>>, outputMints |-> <<>>]
    /\ CoordInit(args.v)

SetOrders ==
    /\ \E fetchedOrders \in DistinctSeqs(FilterCatalogue, MaxOrders) :
          /\ args' = [args EXCEPT !.orders = fetchedOrders]
          /\ ret' = [inputMints |-> uniqueMints(fetchedOrders, "inputMint", args.v),
                     outputMints |-> uniqueMints(fetchedOrders, "outputMint", args.v)]
    /\ called' = "setOrders"
    /\ UNCHANGED cvars

RenderOther ==
    /\ called' = "render"
    /\ UNCHANGED <<args, ret, cvars>>

SpecMints == MintsInit /\ [][SetOrders \/ RenderOther]_vars

(***************************************************************************)
(* The view coordinator.  Time passes in steps of TickMs; a timer holds    *)
(* the ms left until it is due, and time does not pass while a timer is    *)
(* due.  An action is one event handler, timer callback or promise         *)
(* continuation together with the render and the effects it causes.        *)
(***************************************************************************)
TickMs == 100
MaxFetches == 3
MaxOrphans == 1
MaxAggLoads == 1

Variants == {"tsx", "p002a", "p001", "p002b"}
Debounced == {"p002a", "p001", "p002b"}   \* filter edits go through handleFilterChange
Guarded == {"p001", "p002b"}              \* hasFetched, useMemo'd debounce, cancel effect

\* what fetchDCAOrders resolves to (its records are random; one draw is kept)
CoordResults ==
    {<<DCAOrder(1, 1, SOL, BTC, 100, Daily, 0, 30 * MinuteMs),
       DCAOrder(2, 2, SOL, RAY, 50, Weekly, 0, 2 * HourMs)>>}

\* ms until the promise of fetchDCAOrders resolves: setTimeout(resolve, 500),
\* none in the paginated revision
Latency(v) == IF v = "p002b" THEN 0 ELSE FetchDelay

\* index in inFlight of the fetch that resolves next: the timers have the same
\* delay, so they fire in the order they were set
NextToResolveAny(fs) == {i \in 1..Len(fs) : fs[i].left = 0}
NextToResolve(fs) == {i \in 1..Len(fs) : i = 1 /\ fs[i].left = 0}

\* the cleanup of the interval effect: () => clearInterval(interval)
clearIntervalLeak(timers) == timers
clearInterval(timers) == IF timers # <<>> THEN SubSeq(timers, 1, Len(timers) - 1) ELSE <<>>

\* the cleanup of the cancel effect: handleFilterChange.cancel()
cancel(pending) == <<>>

Remove(s, i) == SubSeq(s, 1, i - 1) \o SubSeq(s, i + 1, Len(s))
Elapse(timers) == [i \in 1..Len(timers) |->
                      [timers[i] EXCEPT !.left = IF @ > TickMs THEN @ - TickMs ELSE 0]]
Due(timers) == \E i \in 1..Len(timers) : timers[i].left = 0

\* a promise continuation is run before any other event is taken
MicrotaskPending == variant = "p002b" /\ inFlight # <<>>

\* a render of p002a builds a new debounced handleFilterChange: a call pending
\* on the one of the render before stays pending, out of reach of later edits
Rerender(pending, orphans) ==
    /\ pendingEdit' = IF variant = "p002a" THEN <<>> ELSE pending
    /\ orphanEdits' = IF variant = "p002a" THEN orphans \o pending ELSE orphans
    /\ Len(orphanEdits') <= MaxOrphans

NoRender == UNCHANGED <<pendingEdit, orphanEdits>>

\* the clock read by the filteredOrders memo; the life of the view in the
\* model is seconds, the windows are hours, so that one instant stands for it
CoordNow == 0

\* const filteredOrders = useMemo(() => ..., [orders, filters, sortConfig,
\* activeTab]): computed again when a dependency changed, else the value kept
filteredOrdersDepsWithoutTab == {"orders", "filters", "sortConfig"}
filteredOrdersDeps == {"orders", "filters", "sortConfig", "activeTab"}
useMemo(changed, value) == IF changed \in filteredOrdersDeps THEN value ELSE rows

IssueFetch ==
    /\ fetchCount < MaxFetches
    /\ fetchCount' = fetchCount + 1
    /\ inFlight' = Append(inFlight, [id |-> fetchCount + 1, left |-> Latency(variant)])

\* first effects: the fetch, the chart load and its interval
Mount ==
    /\ phase = "rendered"
    /\ phase' = "mounted"
    /\ IF variant = "tsx"
       THEN /\ pendingFetch' = <<[left |-> DebounceWait]>>
            /\ UNCHANGED <<fetchCount, inFlight, hasFetched, intervals, aggLoads,
                           aggregateFrom>>
       ELSE /\ IssueFetch
            /\ hasFetched' = (variant \in Guarded)
            /\ intervals' = Append(intervals, IF variant = "p002a" THEN -1 ELSE ordersFrom)
            /\ aggLoads' = IF variant = "p002a" THEN 1 ELSE 0
            /\ aggregateFrom' = IF variant = "p002a" THEN aggregateFrom ELSE ordersFrom
            /\ UNCHANGED pendingFetch
    /\ UNCHANGED <<hvars, raced, rows, variant, orders, ordersFrom, filters, sortConfig, activeTab,
                   pendingEdit, orphanEdits, sinceEdit, commitsSinceEdit, earlyCommit,
                   lateFire>>

\* a state setter called for a component that is no longer mounted: React
\* discards the update
DiscardedNever(ph) == FALSE
Discarded(ph) == ph # "mounted"

\* the continuation of await fetchDCAOrders(filters): setOrders(fetchedOrders)
FetchDone ==
    \E i \in NextToResolve(inFlight), fetchedOrders \in CoordResults :
        /\ inFlight' = Remove(inFlight, i)
        /\ raced' = (raced \/ \E j \in 1..Len(inFlight) : inFlight[j].id > inFlight[i].id)
        /\ IF ~Discarded(phase)
           THEN /\ orders' = fetchedOrders
                /\ ordersFrom' = inFlight[i].id
                /\ rows' = useMemo("orders", filteredOrders(fetchedOrders, CoordNow, activeTab,
                                                           filters, sortConfig, variant))
                /\ Rerender(pendingEdit, orphanEdits)
                /\ IF variant \in Guarded
                   THEN /\ intervals' = Append(clearInterval(intervals), inFlight[i].id)
                        /\ aggregateFrom' = inFlight[i].id
                   ELSE UNCHANGED <<intervals, aggregateFrom>>
           ELSE UNCHANGED <<orders, ordersFrom, rows, pendingEdit, orphanEdits, intervals,
                            aggregateFrom>>
        /\ UNCHANGED <<hvars, variant, phase, filters, sortConfig, activeTab, hasFetched,
                       fetchCount, pendingFetch, aggLoads, sinceEdit, commitsSinceEdit,
                       earlyCommit, lateFire>>


\* what the filter controls can hand to their onChange: a text box its text
\* (the empty string when cleared), a selector one of its options, or undefined
\* when its selection is cleared (allowClear)
CoordTexts == {Str_sol}
CoordFields == {"search", "inputMint"}
CoordTabs == {"Next Hour", "All"}
MintOptions(field) == {orders[i][field] : i \in 1..Len(orders)}
HasSelection(field) ==
    \/ filters[field] \notin {EmptyStr, Undefined}
    \/ pendingEdit # <<>> /\ pendingEdit[1].field = field
                          /\ pendingEdit[1].value \notin {EmptyStr, Undefined}
SelectValues(field) ==
    MintOptions(field)
    \cup (IF HasSelection(field) THEN {Undefined} ELSE {})
EditChoices ==
    IF variant = "tsx"
    THEN CoordFields \X CoordTexts
    ELSE UNION {{f} \X (IF f \in {"search", "user"} THEN CoordTexts ELSE SelectValues(f))
                : f \in CoordFields}

\* onChange of a filter control in p002a, p001, p002b: handleFilterChange(value,
\* field), which (re)starts the wait of the current debounced function and
\* keeps the arguments of this call only
EditFilter ==
    /\ phase = "mounted"
    /\ variant \in Debounced
    /\ ~MicrotaskPending
    /\ \E choice \in EditChoices :
          pendingEdit' = <<[value |-> choice[2], field |-> choice[1],
                            left |-> DebounceWait]>>
    /\ sinceEdit' = 0
    /\ commitsSinceEdit' = 0
    /\ UNCHANGED <<hvars, raced, rows, variant, phase, orders, ordersFrom, filters, sortConfig,
                   activeTab, hasFetched, fetchCount, inFlight, orphanEdits,
                   pendingFetch, intervals, aggLoads, aggregateFrom, earlyCommit,
                   lateFire>>

\* onChange of a text box in JupiterDCAViewer.tsx: setFilters at once; the
\* effect on [filters] calls debouncedFetchOrders(filters)
SetFilter ==
    /\ phase = "mounted"
    /\ variant = "tsx"
    /\ \E choice \in EditChoices :
          filters' = [filters EXCEPT ![choice[1]] = choice[2]]
    /\ rows' = useMemo("filters", filteredOrders(orders, CoordNow, activeTab, filters',
                                                sortConfig, variant))
    /\ pendingFetch' = <<[left |-> DebounceWait]>>
    /\ UNCHANGED <<hvars, raced, variant, phase, orders, ordersFrom, sortConfig, activeTab,
                   hasFetched, fetchCount, inFlight, pendingEdit, orphanEdits, intervals,
                   aggLoads, aggregateFrom, sinceEdit, commitsSinceEdit, earlyCommit,
                   lateFire>>

\* the debounced function runs: setFilters(prev => ({...prev, [field]: value})).
\* In p002a the new filters object makes a new fetchOrders, whose effect fetches;
\* in p001 and p002b the effect runs too and hasFetched stops it.
Commit(call, pending, orphans) ==
    IF phase = "mounted"
    THEN /\ filters' = [filters EXCEPT ![call.field] = call.value]
         /\ rows' = useMemo("filters", filteredOrders(orders, CoordNow, activeTab, filters',
                                                     sortConfig, variant))
         /\ commitsSinceEdit' = commitsSinceEdit + 1
         /\ earlyCommit' = (earlyCommit \/ sinceEdit < DebounceWait)
         /\ Rerender(pending, orphans)
         /\ IF variant \in Guarded /\ hasFetched
            THEN UNCHANGED <<fetchCount, inFlight>>
            ELSE IssueFetch
         /\ UNCHANGED lateFire
    ELSE /\ lateFire' = TRUE
         /\ pendingEdit' = pending
         /\ orphanEdits' = orphans
         /\ UNCHANGED <<filters, rows, commitsSinceEdit, earlyCommit, fetchCount, inFlight>>

FireEdit ==
    /\ pendingEdit # <<>>
    /\ pendingEdit[1].left = 0
    /\ Commit(pendingEdit[1], <<>>, orphanEdits)
    /\ UNCHANGED <<hvars, raced, variant, phase, orders, ordersFrom, sortConfig, activeTab,
                   hasFetched, pendingFetch, intervals, aggLoads, aggregateFrom,
                   sinceEdit>>

FireOrphan ==
    /\ \E i \in 1..Len(orphanEdits) :
          /\ orphanEdits[i].left = 0
          /\ Commit(orphanEdits[i], pendingEdit, Remove(orphanEdits, i))
    /\ UNCHANGED <<hvars, raced, variant, phase, orders, ordersFrom, sortConfig, activeTab,
                   hasFetched, pendingFetch, intervals, aggLoads, aggregateFrom,
                   sinceEdit>>

\* debouncedFetchOrders runs (tsx): fetchDCAOrders(filters).then(setOrders)
FireFetch ==
    /\ pendingFetch # <<>>
    /\ pendingFetch[1].left = 0
    /\ pendingFetch' = <<>>
    /\ IssueFetch
    /\ lateFire' = (lateFire \/ phase = "unmounted")
    /\ UNCHANGED <<hvars, raced, rows, variant, phase, orders, ordersFrom, filters, sortConfig,
                   activeTab, hasFetched, pendingEdit, orphanEdits, intervals, aggLoads,
                   aggregateFrom, sinceEdit, commitsSinceEdit, earlyCommit>>

\* Tabs onChange: setActiveTab(key)
SetActiveTab ==
    /\ phase = "mounted"
    /\ variant # "tsx"
    /\ ~MicrotaskPending
    /\ \E key \in CoordTabs \ {activeTab} : activeTab' = key
    /\ rows' = IF variant = "p002b"
               THEN filteredOrders(orders, CoordNow, activeTab', filters, sortConfig, variant)
               ELSE useMemo("activeTab", filteredOrders(orders, CoordNow, activeTab', filters,
                                                        sortConfig, variant))
    /\ Rerender(pendingEdit, orphanEdits)
    /\ UNCHANGED <<hvars, raced, variant, phase, orders, ordersFrom, filters, sortConfig,
                   hasFetched, fetchCount, inFlight, pendingFetch, intervals, aggLoads,
                   aggregateFrom, sinceEdit, commitsSinceEdit, earlyCommit, lateFire>>

\* the sort controls: handleSort(key) of tsx, the Table onChange of p002a,
\* handleTableChange of p002b (the table of p001 has no onChange)
CoordSortKeys == {"amount"}
onTableChangeUnset(sorter, v) ==
    IF sorter.order # "undefined"
    THEN [key |-> sorter.field, direction |-> sorter.order]
    ELSE [key |-> "amount", direction |-> "null"]
onTableChange(sorter, v) ==
    IF sorter.order # "undefined"
    THEN [key |-> sorter.field, direction |-> sorter.order]
    ELSE [key |-> "amount", direction |-> IF v = "p002a" THEN "null" ELSE "descend"]
SortChange ==
    /\ phase = "mounted"
    /\ variant # "p001"
    /\ ~MicrotaskPending
    /\ IF variant = "tsx"
       THEN \E key \in CoordSortKeys : sortConfig' = handleSort(sortConfig, key)
       ELSE \E sorter \in [field : CoordSortKeys,
                           order : {"ascend", "descend", "undefined"}] :
               sortConfig' = onTableChange(sorter, variant)
    /\ rows' = useMemo("sortConfig", filteredOrders(orders, CoordNow, activeTab, filters,
                                                   sortConfig', variant))
    /\ Rerender(pendingEdit, orphanEdits)
    /\ UNCHANGED <<hvars, raced, variant, phase, orders, ordersFrom, filters, activeTab,
                   hasFetched, fetchCount, inFlight, pendingFetch, intervals, aggLoads,
                   aggregateFrom, sinceEdit, commitsSinceEdit, earlyCommit, lateFire>>

\* a tick of setInterval(loadAggregateData, 60000): p002a awaits
\* fetchAggregateVolume, p001 and p002b compute the series from orders at once
IntervalTick ==
    /\ intervals # <<>>
    /\ ~MicrotaskPending
    /\ IF variant = "p002a"
       THEN /\ aggLoads < MaxAggLoads
            /\ aggLoads' = aggLoads + 1
            /\ UNCHANGED aggregateFrom
       ELSE /\ \E i \in 1..Len(intervals) :
                  aggregateFrom' = (IF Discarded(phase) THEN aggregateFrom ELSE intervals[i])
            /\ UNCHANGED aggLoads
    /\ UNCHANGED <<hvars, raced, rows, variant, phase, orders, ordersFrom, filters, sortConfig,
                   activeTab, hasFetched, fetchCount, inFlight, pendingEdit, orphanEdits,
                   pendingFetch, intervals, sinceEdit, commitsSinceEdit, earlyCommit,
                   lateFire>>

\* fetchAggregateVolume resolves (p002a): setAggregateChartData(data)
AggLoadDone ==
    /\ aggLoads > 0
    /\ aggLoads' = aggLoads - 1
    /\ IF phase = "mounted" THEN Rerender(pendingEdit, orphanEdits) ELSE NoRender
    /\ UNCHANGED <<hvars, raced, rows, variant, phase, orders, ordersFrom, filters, sortConfig,
                   activeTab, hasFetched, fetchCount, inFlight, pendingFetch, intervals,
                   aggregateFrom, sinceEdit, commitsSinceEdit, earlyCommit, lateFire>>

\* teardown: the cleanups of the effects run
Unmount ==
    /\ phase = "mounted"
    /\ ~MicrotaskPending
    /\ phase' = "unmounted"
    /\ pendingEdit' = IF variant \in Guarded THEN cancel(pendingEdit) ELSE pendingEdit
    /\ intervals' = IF variant = "tsx" THEN intervals ELSE clearInterval(intervals)
    /\ UNCHANGED <<hvars, raced, rows, variant, orders, ordersFrom, filters, sortConfig, activeTab,
                   hasFetched, fetchCount, inFlight, orphanEdits, pendingFetch, aggLoads,
                   aggregateFrom, sinceEdit, commitsSinceEdit, earlyCommit, lateFire>>

\* TickMs pass: no timer is due, and some timer or the quiet period is running
Tick ==
    /\ ~Due(inFlight) /\ ~Due(pendingEdit) /\ ~Due(orphanEdits) /\ ~Due(pendingFetch)
    /\ \/ inFlight \o pendingEdit \o orphanEdits \o pendingFetch # <<>>
       \/ sinceEdit < DebounceWait
    /\ inFlight' = Elapse(inFlight)
    /\ pendingEdit' = Elapse(pendingEdit)
    /\ orphanEdits' = Elapse(orphanEdits)
    /\ pendingFetch' = Elapse(pendingFetch)
    /\ sinceEdit' = IF sinceEdit + TickMs < DebounceWait THEN sinceEdit + TickMs
                    ELSE DebounceWait
    /\ UNCHANGED <<hvars, raced, rows, variant, phase, orders, ordersFrom, filters, sortConfig,
                   activeTab, hasFetched, fetchCount, intervals, aggLoads, aggregateFrom,
                   commitsSinceEdit, earlyCommit, lateFire>>

Init ==
    /\ called = "none"
    /\ args = <<>>
    /\ ret = <<>>
    /\ \E v \in Variants : CoordInit(v)

Next ==
    \/ Mount
    \/ FetchDone
    \/ EditFilter
    \/ SetFilter
    \/ FireEdit
    \/ FireOrphan
    \/ FireFetch
    \/ SetActiveTab
    \/ SortChange
    \/ IntervalTick
    \/ AggLoadDone
    \/ Unmount
    \/ Tick

Spec == Init /\ [][Next]_vars


(***************************************************************************)
(* The debounced handleFilterChange on its own: one debounced function for *)
(* all filter controls, which keeps the arguments of its latest call and   *)
(* runs setFilters(prev => ({...prev, [field]: value})) DebounceWait after *)
(* that call.  edited is the value of the latest edit of each field.       *)
(***************************************************************************)
NotEdited == <<-2>>
FilterFields == {"search", "inputMint", "outputMint"}
EditValues(field) ==
    IF field = "search" THEN {Str_sol, Str_usd}
    ELSE IF field = "inputMint" THEN {SOL, USDC}
    ELSE {BTC, RAY}

DebounceInit ==
    /\ called = "none"
    /\ ret = DefaultFilters
    /\ args = [timer |-> <<>>, edited |-> [field \in FilterFields |-> NotEdited],
               quiet |-> DebounceWait]
    /\ CoordInit("p001")

\* a control's onChange: handleFilterChange(value, field)
CallHandleFilterChange ==
    /\ \E field \in FilterFields : \E value \in EditValues(field) :
          args' = [timer |-> <<[value |-> value, field |-> field, left |-> DebounceWait]>>,
                   edited |-> [args.edited EXCEPT ![field] = value],
                   quiet |-> 0]
    /\ called' = "handleFilterChange"
    /\ UNCHANGED <<ret, cvars>>

\* TickMs pass without an edit
Quiet ==
    /\ ~Due(args.timer)
    /\ args.timer # <<>> \/ args.quiet < DebounceWait
    /\ args' = [args EXCEPT !.timer = Elapse(args.timer),
                            !.quiet = IF @ + TickMs < DebounceWait THEN @ + TickMs
                                      ELSE DebounceWait]
    /\ called' = "tick"
    /\ UNCHANGED <<ret, cvars>>

\* the wait is over: the debounced function runs with the arguments kept
InvokeFunc ==
    /\ Due(args.timer)
    /\ ret' = [ret EXCEPT ![args.timer[1].field] = args.timer[1].value]
    /\ args' = [args EXCEPT !.timer = <<>>]
    /\ called' = "setFilters"
    /\ UNCHANGED cvars

SpecDebounce == DebounceInit /\ [][CallHandleFilterChange \/ Quiet \/ InvokeFunc]_vars

(***************************************************************************)
(* The rows and the clock.  The clock is read inside the memo (const now = *)
(* new Date()), so the rows are those of the instant the memo last ran.    *)
(* part_001: filteredOrders is a memo on [orders, filters, sortConfig,     *)
(* activeTab].  Paginated revision: tabItems, with the rows of all three   *)
(* tabs, is a memo on [columns, pagination, handleTableChange,             *)
(* getFilteredOrders], which change with sortConfig, pagination, orders    *)
(* and filters, and not with activeTab.  A render for another reason (the  *)
(* chart state set by the interval) leaves both memos as they are.         *)
(***************************************************************************)
ClockValues == {0, 30 * MinuteMs, 60 * MinuteMs, 90 * MinuteMs}
TableSorts == {[key |-> "amount", direction |-> "descend"],
               [key |-> "amount", direction |-> "ascend"]}

ClockInit ==
    /\ called = "none"
    /\ \E os \in DistinctSeqs(PartitionCatalogue, MaxOrders), v \in {"p001", "p002b"} :
          /\ args = [orders |-> os, v |-> v, now |-> 0, tab |-> "Next Hour",
                     cfg |-> DefaultSort(v), computedAt |-> 0]
          /\ ret = filteredOrders(os, 0, "Next Hour", DefaultFilters, DefaultSort(v), v)
    /\ CoordInit(args.v)

\* time passes; the view may render again for the chart
TimePasses ==
    /\ \E t \in ClockValues : t > args.now /\ args' = [args EXCEPT !.now = t]
    /\ called' = "render"
    /\ UNCHANGED <<ret, cvars>>

\* Tabs onChange
ShowTab ==
    /\ \E key \in Tabs \ {args.tab} :
          LET at == IF "activeTab" \in filteredOrdersDeps /\ args.v = "p001"
                    THEN args.now ELSE args.computedAt
          IN  /\ args' = [args EXCEPT !.tab = key, !.computedAt = at]
              /\ ret' = filteredOrders(args.orders, at, key, DefaultFilters, args.cfg, args.v)
    /\ called' = "setActiveTab"
    /\ UNCHANGED cvars

\* a sort control: sortConfig is a dependency of both memos
SortTable ==
    /\ \E cfg \in TableSorts \ {args.cfg} :
          /\ args' = [args EXCEPT !.cfg = cfg, !.computedAt = args.now]
          /\ ret' = filteredOrders(args.orders, args.now, args.tab, DefaultFilters, cfg,
                                   args.v)
    /\ called' = "setSortConfig"
    /\ UNCHANGED cvars

SpecClock == ClockInit /\ [][TimePasses \/ ShowTab \/ SortTable]_vars

(***************************************************************************)
(* The page of the table in the paginated revision.  pagination is state   *)
(* of the view; every tab's Table is handed the same object, and           *)
(* handleTableChange stores what the Table reports.  The Table reports a   *)
(* page of the rows it is showing, and the sorter of the column header     *)
(* clicked (order undefined when the click cancels the sort), else the     *)
(* sorter its columns show.  Tabs onChange and setFilters leave pagination *)
(* as it is.                                                               *)
(***************************************************************************)
MaxPageOrders == 7
pageSizeOptions == {5, 10, 20, 50}
paginationInitial == [current |-> 1, pageSize |-> 10]

\* the pages the Table offers for n rows
PageCount(n, pageSize) == IF n = 0 THEN 1 ELSE (n + pageSize - 1) \div pageSize

\* element index of the array of fetchDCAOrders (index below 10) for a fetch
\* at instant 0: createdAt 1, 24 or 48 hours on by index % 3, executeAt up to
\* 59 minutes after it; here 30, and one outcome each of the other draws
PageOrderDate(index) ==
    IF index % 3 = 0 THEN HourMs ELSE IF index % 3 = 1 THEN 24 * HourMs ELSE 48 * HourMs
PageOrder(index) ==
    DCAOrder(index, index % 5, IF index % 2 = 0 THEN SOL ELSE USDC, BTC, 100, Daily,
             PageOrderDate(index), PageOrderDate(index) + 30 * MinuteMs)
RECURSIVE PageOrders(_)
PageOrders(n) == IF n = 0 THEN <<>> ELSE Append(PageOrders(n - 1), PageOrder(n - 1))

\* the columns with a dataIndex that the harness sorts by
PageSortFields == {"user", "amount"}
PageFilters == {DefaultFilters, [DefaultFilters EXCEPT !.inputMint = USDC],
                [DefaultFilters EXCEPT !.inputMint = SOL]}

\* handleTableChange(newPagination, _, sorter): both states it sets
handleTableChange(newPagination, sorter) ==
    [pagination |-> newPagination, sortConfig |-> onTableChange(sorter, "p002b")]

\* dataSource of the Table of the tab shown
PageRows(a) == filteredOrders(a.orders, CoordNow, a.tab, a.filters, a.sortConfig, "p002b")

PagesInit ==
    /\ called = "none"
    /\ \E n \in 0..MaxPageOrders :
          args = [orders |-> PageOrders(n), tab |-> "Next Hour", filters |-> DefaultFilters,
                  sortConfig |-> DefaultSort("p002b"), pagination |-> paginationInitial,
                  sorter |-> [field |-> "amount", order |-> "descend"]]
    /\ ret = PageRows(args)
    /\ CoordInit("p002b")

\* the Table reports another page of its rows; its columns show sortConfig
ChangePage ==
    /\ \E p \in 1..PageCount(Len(ret), args.pagination.pageSize) :
          /\ p # args.pagination.current
          /\ LET set == handleTableChange([args.pagination EXCEPT !.current = p],
                                          [field |-> args.sortConfig.key,
                                           order |-> args.sortConfig.direction])
             IN  args' = [args EXCEPT !.pagination = set.pagination,
                                      !.sortConfig = set.sortConfig,
                                      !.sorter = [field |-> args.sortConfig.key,
                                                  order |-> args.sortConfig.direction]]
    /\ ret' = PageRows(args')
    /\ called' = "handleTableChange"
    /\ UNCHANGED cvars

\* the size changer: another page size, and a page that exists at that size
ChangePageSize ==
    /\ \E size \in pageSizeOptions \ {args.pagination.pageSize} :
       \E p \in 1..PageCount(Len(ret), size) :
          LET set == handleTableChange([current |-> p, pageSize |-> size],
                                       [field |-> args.sortConfig.key,
                                        order |-> args.sortConfig.direction])
          IN  args' = [args EXCEPT !.pagination = set.pagination,
                                   !.sortConfig = set.sortConfig,
                                   !.sorter = [field |-> args.sortConfig.key,
                                               order |-> args.sortConfig.direction]]
    /\ ret' = PageRows(args')
    /\ called' = "handleTableChange"
    /\ UNCHANGED cvars

\* a click on a column header: the Table reports the sorter, and a page of
\* its rows
SortPage ==
    /\ \E sorter \in [field : PageSortFields, order : {"ascend", "descend", "undefined"}] :
       \E p \in 1..PageCount(Len(ret), args.pagination.pageSize) :
          /\ sorter # [field |-> args.sortConfig.key, order |-> args.sortConfig.direction]
          /\ LET set == handleTableChange([args.pagination EXCEPT !.current = p], sorter)
             IN  args' = [args EXCEPT !.pagination = set.pagination,
                                      !.sortConfig = set.sortConfig, !.sorter = sorter]
    /\ ret' = PageRows(args')
    /\ called' = "handleTableChange"
    /\ UNCHANGED cvars

\* Tabs onChange={setActiveTab}
ShowPageTab ==
    /\ \E key \in Tabs \ {args.tab} : args' = [args EXCEPT !.tab = key]
    /\ ret' = PageRows(args')
    /\ called' = "setActiveTab"
    /\ UNCHANGED cvars

\* the debounced function runs: setFilters(prev => ({...prev, [field]: value}))
CommitFilter ==
    /\ \E f \in PageFilters \ {args.filters} : args' = [args EXCEPT !.filters = f]
    /\ ret' = PageRows(args')
    /\ called' = "setFilters"
    /\ UNCHANGED cvars

SpecPages ==
    PagesInit /\ [][ChangePage \/ ChangePageSize \/ SortPage \/ ShowPageTab \/ CommitFilter]_vars

(***************************************************************************)
(* Claims about the pure functions                                         *)
(***************************************************************************)
ExecuteInstant(order) == DateParse(order.executeAt)

\* C1: the partitioner returns exactly the orders with now < executeAt <= now+1h
\* for Next Hour, exactly those with now < executeAt <= now+24h for Next Day and
\* every order for All, in the order of the input: the lower bound is exclusive,
\* the upper bound inclusive, and a past-due order is returned under All only.
C1_Window(order, now, tab) ==
    \/ tab = "All"
    \/ tab = "Next Hour" /\ now < ExecuteInstant(order)
                         /\ ExecuteInstant(order) <= now + 3600000
    \/ tab = "Next Day" /\ now < ExecuteInstant(order)
                        /\ ExecuteInstant(order) <= now + 86400000
C1_PartitionExact ==
    called = "relevantOrders" =>
        LET Claimed(order) == C1_Window(order, args.now, args.tab)
        IN /\ ret = SelectSeq(args.orders, Claimed)
           /\ \A i \in 1..Len(args.orders) :
                 ExecuteInstant(args.orders[i]) <= args.now =>
                     (args.orders[i] \in Range(ret) <=> args.tab = "All")
C1_Witness ==
    /\ called = "relevantOrders"
    /\ args.tab = "Next Hour"
    /\ \E i, j, k \in 1..Len(args.orders) :
          /\ ExecuteInstant(args.orders[i]) = args.now
          /\ ExecuteInstant(args.orders[j]) = args.now + HourMs
          /\ ExecuteInstant(args.orders[k]) > args.now + HourMs
          /\ ret = <<args.orders[j]>>

\* C2: the filter returns exactly the orders for which all of (a) user contains
\* the user filter, case-insensitively, (b) inputMint equals the input-mint
\* selector or the selector is empty, (c) likewise outputMint, (d) the search
\* string is a case-insensitive substring of user, inputMint or outputMint.
C2_All(order, f) ==
    /\ Includes(ToLowerCase(order.user), ToLowerCase(f.user))
    /\ (order.inputMint = f.inputMint \/ f.inputMint = EmptyStr)
    /\ (order.outputMint = f.outputMint \/ f.outputMint = EmptyStr)
    /\ \E field \in {"user", "inputMint", "outputMint"} :
          Includes(ToLowerCase(order[field]), ToLowerCase(f.search))
C2_FilterExact ==
    called = "FilterOrders" =>
        LET Claimed(order) == C2_All(order, args.filters)
        IN ret = SelectSeq(args.orders, Claimed)
\* the same statement for the revisions whose mint criteria are selectors
C2_FilterExactSelectors ==
    (called = "FilterOrders" /\ args.v # "tsx") =>
        LET Claimed(order) == C2_All(order, args.filters)
        IN ret = SelectSeq(args.orders, Claimed)

\* C3: a criterion that holds an empty or blank value, the value of a cleared
\* control included, imposes no constraint: the output equals the output of the
\* filter with that criterion left out.
IsBlank(value) == value = Undefined \/ \A i \in 1..Len(value) : value[i] = 32
C3_Criterion(order, f, v, criterion) ==
    IF criterion = "user" THEN Includes(ToLowerCase(order.user), ToLowerCase(f.user))
    ELSE IF criterion = "search"
    THEN \E field \in {"user", "inputMint", "outputMint"} :
            Includes(ToLowerCase(order[field]), ToLowerCase(f.search))
    ELSE IF v = "tsx" THEN Includes(ToLowerCase(order[criterion]), ToLowerCase(f[criterion]))
    ELSE order[criterion] = f[criterion]
C3_BlankNoConstraint ==
    called = "FilterOrders" =>
        \A blank \in {c \in DOMAIN args.filters : IsBlank(args.filters[c])} :
            LET Others(order) ==
                    \A c \in DOMAIN args.filters \ {blank} :
                        IsBlank(args.filters[c])
                        \/ C3_Criterion(order, args.filters, args.v, c)
            IN ret = SelectSeq(args.orders, Others)

C9_UnsetIsNoOpOnFields ==
    (called = "ArraySort" /\ args.cfg.direction = "null" /\ args.cfg.key \in OrderFields)
        => ret = args.orders

\* C10: with a set direction the output holds the input's orders, ascending
\* in non-decreasing and descending in non-increasing key order: amount by
\* value, text by code unit, timestamps as instants, the token pair as the
\* string outputMint-inputMint.
C10_KeyLess(a, b, key) ==
    IF key = "undefined" THEN FALSE
    ELSE IF key = "amount" THEN a.amount < b.amount
    ELSE IF key \in {"createdAt", "executeAt"} THEN DateParse(a[key]) < DateParse(b[key])
    ELSE IF key = "tokenPair"
    THEN StrLess(a.outputMint \o <<45>> \o a.inputMint, b.outputMint \o <<45>> \o b.inputMint)
    ELSE StrLess(a[key], b[key])
C10_SortedByKey ==
    (called = "ArraySort" /\ args.cfg.direction # "null") =>
        /\ Len(ret) = Len(args.orders)
        /\ Range(ret) = Range(args.orders)
        /\ \A i \in 1..(Len(ret) - 1) :
              IF args.cfg.direction \in {"asc", "ascend"}
              THEN ~C10_KeyLess(ret[i + 1], ret[i], args.cfg.key)
              ELSE ~C10_KeyLess(ret[i], ret[i + 1], args.cfg.key)
C10_Witness ==
    /\ called = "ArraySort"
    /\ args.cfg = [key |-> "amount", direction |-> "descend"]
    /\ Len(args.orders) = 2
    /\ args.orders[1].amount = 50
    /\ args.orders[2].amount = 100
    /\ ret = <<args.orders[2], args.orders[1]>>

(***************************************************************************)
(* Claims about the mounted component                                      *)
(***************************************************************************)
\* C4: a filter edit reaches the committed criteria only after 300 ms without
\* a further edit, and the edits of one quiet period make one criteria update:
\* no update comes less than 300 ms after an edit, and no second update comes
\* before the next edit.
C4_OneUpdatePerQuietPeriod ==
    variant \in Debounced => (~earlyCommit /\ commitsSinceEdit <= 1)
\* the same statement for the revisions that keep one debounced function
C4_OneUpdateWhenMemoized ==
    variant \in Guarded => (~earlyCommit /\ commitsSinceEdit <= 1)
C4_WitnessMemoized ==
    /\ variant \in Guarded
    /\ commitsSinceEdit = 1
    /\ filters # DefaultFilters

C6_FetchOnce ==
    phase # "rendered" => fetchCount + Len(pendingFetch) = 1
\* the same statement for the revisions that guard the fetch with hasFetched
C6_FetchOnceWhenGuarded ==
    (phase # "rendered" /\ variant \in Guarded) => fetchCount + Len(pendingFetch) = 1

\* C7: a debounced call still waiting at teardown never runs afterwards.
C7_NoFireAfterTeardown == ~lateFire
\* the same statement for the revisions that cancel in an effect cleanup
C7_NoFireWhenCancelled ==
    /\ variant \in Guarded => ~lateFire
    /\ (variant \in Guarded /\ phase = "unmounted") => pendingEdit = <<>>

\* C8: after teardown no refresh interval is active, so that no further tick
\* is scheduled.
C8_IntervalReleased ==
    phase = "unmounted" => (intervals = <<>> /\ ~ENABLED IntervalTick)
C8_Witness ==
    /\ phase = "unmounted"
    /\ variant \in Guarded
    /\ ordersFrom >= 1
    /\ intervals = <<>>

(***************************************************************************)
(* Further claims about the sort                                           *)
(***************************************************************************)
Ascending(v) == IF v = "tsx" THEN "asc" ELSE "ascend"
Descending(v) == IF v = "tsx" THEN "desc" ELSE "descend"
C11_SortedDescending ==
    EngineSort(args.orders, [key |-> args.cfg.key, direction |-> Descending(args.v)],
               args.v, args.engine)
C11_DistinctKeys ==
    \A i, j \in 1..Len(args.orders) :
        i # j => \/ C10_KeyLess(args.orders[i], args.orders[j], args.cfg.key)
                 \/ C10_KeyLess(args.orders[j], args.orders[i], args.cfg.key)

\* C11: for every input sequence, sequences in which orders share a key value
\* included, and every key, sorting ascending and reversing the result gives
\* the sequence that sorting descending gives.
C11_AscReverseIsDesc ==
    (called = "ArraySort" /\ args.cfg.direction = Ascending(args.v))
        => Reverse(ret) = C11_SortedDescending
\* C11, for the input sequences whose orders have pairwise different values of
\* the sort key: sorting ascending and reversing gives the descending sort.
C11_AscReverseIsDescOnDistinctKeys ==
    (called = "ArraySort" /\ args.cfg.direction = Ascending(args.v) /\ C11_DistinctKeys)
        => Reverse(ret) = C11_SortedDescending
C11_Witness ==
    /\ called = "ArraySort"
    /\ args.cfg.direction = Ascending(args.v)
    /\ args.cfg.key = "amount"
    /\ Len(args.orders) = 3
    /\ C11_DistinctKeys
    /\ ret # args.orders
    /\ Reverse(ret) = C11_SortedDescending

\* C12: a sort configuration whose key is no field of the order and not the
\* token pair is a no-op: for every direction the sort returns its input in
\* unchanged order.
C12_UnknownKeyIsNoOp ==
    (called = "ArraySort" /\ args.cfg.key \notin OrderFields \cup {"tokenPair"})
        => ret = args.orders
\* the same statement for the engine that takes a whole non-descending run as
\* sorted
C12_UnknownKeyIsNoOpOnV8 ==
    (called = "ArraySort" /\ args.cfg.key \notin OrderFields \cup {"tokenPair"}
                         /\ args.engine = "v8")
        => ret = args.orders

(***************************************************************************)
(* Claims about the aggregation                                            *)
(***************************************************************************)
Aggregated == called = "fetchAggregateUSDCValue"
BucketStart(i) == hourStart(args.zone, args.now - DayMs, i - 1)
BucketEnd(i) == hourEnd(args.zone, BucketStart(i))
CountedIn(order, from, to) ==
    /\ order.inputMint = USDC
    /\ from <= ExecuteInstant(order)
    /\ ExecuteInstant(order) < to
RECURSIVE AmountOf(_, _, _, _)
AmountOf(os, k, from, to) ==
    IF k > Len(os) THEN 0
    ELSE (IF CountedIn(os[k], from, to) THEN os[k].amount ELSE 0)
         + AmountOf(os, k + 1, from, to)
RECURSIVE Total(_, _)
Total(values, k) == IF k > Len(values) THEN 0 ELSE values[k] + Total(values, k + 1)

\* C13: for every order set and clock the aggregation returns 24 labels and 24
\* values, label i naming the start of bucket i and the buckets oldest first; a
\* bucket no order falls in has value 0, so an empty order set gives 24 zeros.
C13_BucketCount ==
    Aggregated =>
        /\ Len(ret.labels) = 24
        /\ Len(ret.data) = 24
        /\ \A i \in 1..24 :
              /\ ret.labels[i] = toLocaleTimeString(args.zone, BucketStart(i))
              /\ i > 1 => BucketStart(i - 1) <= BucketStart(i)
              /\ (\A k \in 1..Len(args.orders) :
                     ~CountedIn(args.orders[k], BucketStart(i), BucketEnd(i)))
                    => ret.data[i] = 0
        /\ args.orders = <<>> => \A i \in 1..24 : ret.data[i] = 0
C13_Witness ==
    /\ Aggregated
    /\ args.orders = <<>>
    /\ Len(ret.data) = 24
    /\ \A i \in 1..24 : ret.data[i] = 0

\* C14: each bucket value is the sum of amount over exactly the USDC orders
\* whose executeAt lies in [bucketStart, bucketEnd) of that bucket: an order at
\* bucketStart is counted there and an order at bucketEnd is not.  The bucket
\* runs from the start the code gives it to one hour of wall time later, which
\* with one offset in force is hours i-1 to i of the trailing day.
C14_BucketSum ==
    Aggregated =>
        \A i \in 1..Len(ret.data) :
            /\ ret.data[i] = AmountOf(args.orders, 1, BucketStart(i), BucketEnd(i))
            /\ args.zone = "fixed" =>
                  /\ BucketStart(i) = args.now - 86400000 + (i - 1) * 3600000
                  /\ BucketEnd(i) = args.now - 86400000 + i * 3600000
C14_Witness ==
    /\ Aggregated
    /\ args.zone = "fixed"
    /\ args.now = 48 * HourMs
    /\ \E j, k \in 1..Len(args.orders) :
          /\ ExecuteInstant(args.orders[j]) = BucketStart(1)
          /\ ExecuteInstant(args.orders[k]) = BucketEnd(1)
          /\ Len(args.orders) = 2
          /\ ret.data[1] = args.orders[j].amount
          /\ ret.data[2] = args.orders[k].amount

\* C15: the sum of the bucket values is the sum of amount over the USDC orders
\* whose executeAt lies in the trailing day [now - 24h, now): each is counted
\* in one bucket and no other order is counted.
C15_Conserved ==
    Aggregated =>
        Total(ret.data, 1) = AmountOf(args.orders, 1, args.now - DayMs, args.now)
\* the same statement while one offset is in force over the trailing day
C15_ConservedFixedOffset ==
    (Aggregated /\ args.zone = "fixed") =>
        Total(ret.data, 1) = AmountOf(args.orders, 1, args.now - DayMs, args.now)

\* the orders of the scenario, its now being 46h
Scenario ==
    <<DCAOrder(1, 1, SOL, BTC, 100, Daily, 0, 46 * HourMs + 30 * MinuteMs),
      DCAOrder(2, 2, USDC, RAY, 50, Weekly, 0, 48 * HourMs)>>
ScenarioRun(clocks) ==
    Aggregated /\ args.orders = Scenario /\ args.zone = "fixed" /\ args.now \in clocks

C17_SeriesFromCurrentOrders ==
    (phase = "mounted" /\ variant # "tsx" /\ ordersFrom > 0) => aggregateFrom = ordersFrom
\* the same statement for the revisions whose chart effect depends on orders;
\* there the effect also keeps exactly one interval running while mounted
C17_SeriesFromOrdersWhenDerived ==
    (phase = "mounted" /\ variant \in Guarded) =>
        (aggregateFrom = ordersFrom /\ Len(intervals) = 1)

\* C18: a tab change issues no fetch and leaves the order set, the committed
\* criteria and the sort configuration as they were; the rows after it are
\* partition, filter and sort of that order set with the new tab.
C18_TabChangeFrame ==
    [][activeTab' # activeTab =>
          /\ UNCHANGED <<orders, ordersFrom, filters, sortConfig>>
          /\ UNCHANGED <<fetchCount, inFlight, pendingFetch>>
          /\ rows' = filteredOrders(orders, CoordNow, activeTab', filters, sortConfig,
                                    variant)]_vars
C18_Witness ==
    /\ phase = "mounted"
    /\ variant \in Guarded
    /\ activeTab = "All"
    /\ ordersFrom = 1
    /\ fetchCount = 1
    /\ Len(rows) = 2
    /\ Len(filteredOrders(orders, CoordNow, "Next Hour", filters, sortConfig, variant)) = 1

C21_OrdersNotMutated == args.orders = args.fetched
\* the rows are those of filteredOrders, and the series that of
\* fetchAggregateUSDCValue
C21_SameResults ==
    /\ called = "filteredOrders" =>
          ret = filteredOrders(args.orders, 0, args.tab, args.filters, args.cfg, args.v)
    /\ called = "fetchAggregateUSDCValue" =>
          ret = fetchAggregateUSDCValue(args.orders, 12 * HourMs, "fixed").data
C21_Witness ==
    /\ called = "filteredOrders"
    /\ args.tab = "All"
    /\ args.filters = DefaultFilters
    /\ Len(ret) = 3
    /\ ret # args.orders
    /\ args.orders = args.fetched

\* C22: for every order set and every clock value the orders of the Next Hour
\* tab are among those of the Next Day tab, those are among the orders of the
\* All tab, and the All tab holds the whole order set.
C22_Partition(tab) ==
    IF tab = args.tab THEN ret ELSE relevantOrders(args.orders, args.now, tab)
C22_WindowsNested ==
    called = "relevantOrders" =>
        /\ Range(C22_Partition("Next Hour")) \subseteq Range(C22_Partition("Next Day"))
        /\ Range(C22_Partition("Next Day")) \subseteq Range(C22_Partition("All"))
        /\ C22_Partition("All") = args.orders
C22_Witness ==
    /\ called = "relevantOrders"
    /\ args.tab = "Next Day"
    /\ Len(args.orders) = 3
    /\ Len(ret) = 2
    /\ Len(C22_Partition("Next Hour")) = 1
    /\ C22_Partition("Next Hour")[1] \in Range(ret)

\* C23: a header click on the field that is selected with ascending direction
\* selects it descending; a click on another field, or on the selected field
\* when it is descending, selects the clicked field ascending.
C23_HeaderToggle ==
    called = "handleSort" =>
        /\ ret.key = args.key
        /\ (args.prevConfig.key = args.key /\ args.prevConfig.direction = "asc")
              => ret.direction = "desc"
        /\ args.prevConfig.key # args.key => ret.direction = "asc"
        /\ (args.prevConfig.key = args.key /\ args.prevConfig.direction = "desc")
              => ret.direction = "asc"
C23_Witness ==
    /\ called = "handleSort"
    /\ args.prevConfig = [key |-> "user", direction |-> "asc"]
    /\ args.key = "amount"
    /\ ret = [key |-> "amount", direction |-> "asc"]

\* C24: once a fetch result is stored and the effect has run, the input-mint
\* options are the distinct inputMint values of the order set, each once and
\* none besides, and likewise the output-mint options; the lists change only
\* when the order set changes.
C24_Distinct(list) == \A i, j \in 1..Len(list) : i # j => list[i] # list[j]
C24_OptionsOf(list, field) ==
    /\ Range(list) = {args.orders[i][field] : i \in 1..Len(args.orders)}
    /\ C24_Distinct(list)
C24_MintOptions ==
    [][/\ C24_OptionsOf(ret.inputMints, "inputMint")'
       /\ C24_OptionsOf(ret.outputMints, "outputMint")'
       /\ ret' # ret => args.orders' # args.orders]_vars
C24_Witness ==
    /\ called = "render"
    /\ Len(args.orders) = 3
    /\ args.v = "p001"
    /\ ret.inputMints = <<SOL, USDC>>
    /\ args.orders[1].inputMint = USDC
    /\ args.orders[2].inputMint = USDC
    /\ Len(ret.outputMints) = 3

\* C25: after a burst of filter edits and a quiet period of 300 ms the
\* committed criteria hold, for every field that was edited, the value of the
\* latest edit of that field; no edit is lost to an edit of another field.
C25_Settled == called # "none" /\ args.timer = <<>> /\ args.quiet = DebounceWait
C25_EveryFieldCommitted ==
    C25_Settled =>
        \A field \in FilterFields :
            args.edited[field] # NotEdited => ret[field] = args.edited[field]
\* what the code gives: a field whose latest edit is not committed was edited
\* in a burst that ended with the edit of another field
C25_OnlyLatestCallCommitted ==
    C25_Settled =>
        \E field \in FilterFields :
            /\ args.edited[field] # NotEdited
            /\ ret[field] = args.edited[field]

\* C26: while the Next Hour or the Next Day tab is shown, the rows are at
\* every moment the fetched orders that pass the filter and lie in the window
\* of the current clock value, also when time passes without interaction: an
\* order that has come due is not shown.
C26_RowsFollowClock ==
    args.tab \in {"Next Hour", "Next Day"} =>
        /\ Range(ret) = {order \in Range(args.orders) :
                            /\ Matches(order, DefaultFilters, args.v)
                            /\ C1_Window(order, args.now, args.tab)}
        /\ Len(ret) = Cardinality(Range(ret))
\* what the code gives: the rows of the clock value the memo last ran at
C26_RowsOfLastRun ==
    /\ Range(ret) = {order \in Range(args.orders) :
                        C1_Window(order, args.computedAt, args.tab)}
    /\ args.computedAt <= args.now

C29_OneInterval ==
    [][/\ phase' = "mounted" => Len(intervals') <= 1
       /\ (IntervalTick /\ phase = "mounted" /\ variant \in Guarded)
             => aggregateFrom' = ordersFrom]_vars
C29_Witness ==
    /\ phase = "mounted"
    /\ variant \in Guarded
    /\ intervals = <<1>>
    /\ ordersFrom = 1
    /\ aggregateFrom = 1

\* C28: in the paginated revision the page the view holds is a page of the
\* rows of the tab shown: between 1 and max(1, ceil(n / pageSize)).
C28_PageInRange ==
    args.pagination.current \in 1..PageCount(Len(ret), args.pagination.pageSize)
\* what holds instead: the page was a page of the rows shown when the Table
\* last reported it, so it is at least 1 and no page beyond the whole set's
C28_PageOfSomeRows ==
    args.pagination.current \in
        1..PageCount(Len(args.orders), 5)

\* C30: in the paginated revision the direction of the sort configuration is
\* ascend or descend in every state, and after a table change that carried no
\* sort order the configuration is key amount, direction descend.
C30_DirectionSet ==
    /\ args.sortConfig.direction \in {"ascend", "descend"}
    /\ (called = "handleTableChange" /\ args.sorter.order = "undefined")
          => args.sortConfig = [key |-> "amount", direction |-> "descend"]
C30_Witness ==
    /\ called = "handleTableChange"
    /\ args.sorter = [field |-> "user", order |-> "undefined"]
    /\ args.sortConfig = [key |-> "amount", direction |-> "descend"]

====
